---------------------------- MODULE Spec2Model ----------------------------
(***************************************************************************)
(* A model of newbot.py: a Telegram bot that fetches a coffee price with   *)
(* a retry/fallback cascade (get_coffee_price), keeps a persisted set of   *)
(* subscribers (load_subscribers / save_subscribers, /start and            *)
(* /unsubscribe) and broadcasts the price from a scheduler thread          *)
(* (job / send_daily_price).                                               *)
(*                                                                         *)
(* Two control flows exist, as in the program: the event loop of the main  *)
(* thread, which handles one command at a time, and the scheduler thread,  *)
(* which runs job().  They share the module-level set `subscribers`.       *)
(***************************************************************************)
EXTENDS Integers, Sequences, FiniteSets

VARIABLES
    subscribers,  \* the module-level set of chat ids (line 45), as CPython
                  \* holds it: a table of entries with its fill and used
    file,         \* subscribers.json: [st, ids]
    hpc,          \* where the event loop is: "idle" or inside a handler
    hcmd,         \* the command being handled, or the last one handled
    hchat,        \* update.message.chat_id of that command
    hresult,      \* how the last handler ended: "none", "returned", "raised"
    hwrite,       \* how that handler's save_subscribers ended, or "none"
    replies,      \* that handler's reply_text calls, in order, each with
                  \* its text and how the call ended
    ncmds,        \* commands accepted so far
    writes,       \* calls of save_subscribers so far
    log,          \* history: the load at startup, then each store command
    jpc,          \* where the scheduler thread is in job()
    message,      \* send_daily_price's local `message`
    it,           \* the set iterator of the for loop of line 127
    began,        \* history: the members when that loop began
    cur,          \* the loop variable chat_id of line 127
    sends,        \* bot.send_message calls of the current broadcast
    njobs,        \* runs of job() so far
    fetch         \* per caller, the frame of get_coffee_price

vars == <<subscribers, file, hpc, hcmd, hchat, hresult, hwrite, replies,
          ncmds, writes, log, jpc, message, it, began, cur, sends, njobs,
          fetch>>

storeVars == <<subscribers, file, writes>>
handlerVars == <<hpc, hcmd, hchat, hresult, hwrite, replies, ncmds>>
jobVars == <<jpc, message, it, began, cur, sends, njobs>>

----------------------------------------------------------------------------
(* Bounds of the model *)

\* commands the event loop accepts in one run of the model
MaxCmds == 3

\* commands the event loop accepts in a run that also runs the job
MaxJobCmds == 2

\* runs of the scheduled job in one run of the model
MaxJobs == 1

\* commands the event loop accepts in a run of the whole program
MaxAllCmds == 1

\* chat ids that issue commands; 42 is the id of the spec's scenario
\* and 7 and 15 fall on the same slot of the set's table
ChatIds == {7, 15, 42}

\* raw prices a provider may report (Close, or regularMarketPrice)
RawPrices == {52, 385}

\* what the clock may read when line 114 asks it
Clock == {5}

----------------------------------------------------------------------------
(* Texts *)

\* a text: its kind and, for a quote, the price (in thousandths, as printed
\* by :.3f) and the date it shows, with the source and raw value it is from
Msg(kind, src, raw) ==
    [kind |-> kind, src |-> src, raw |-> raw, price |-> 0, date |-> 0]

NoMessage == Msg("none", "", 0)

\* line 141
WelcomeText == Msg("welcome", "", 0)

\* line 155
UnsubscribedText == Msg("unsubscribed", "", 0)

\* line 157
NotSubscribedText == Msg("not_subscribed", "", 0)

\* line 145
FetchingText == Msg("fetching", "", 0)

\* line 161
HelpText == Msg("help", "", 0)

\* line 122
UnavailableText == Msg("unavailable", "", 0)

\* lines 89 and 118: the quote text, with its price and its date
QuoteText(src, raw, price, date) ==
    [Msg("quote", src, raw) EXCEPT !.price = price, !.date = date]

----------------------------------------------------------------------------
(* The set of subscribers, as CPython (3.11, setobject.c) holds a set of  *)
(* ints of magnitude below 2^31                                            *)

\* the smallest table
PySet_MINSIZE == 8

\* the entries probed in a row before the probe jumps, in tables that have
\* room for them
LINEAR_PROBES == 9

\* an entry of the table: never used, a removed key's dummy, or a key
Unused == [st |-> "unused", key |-> 0]
DummyEntry == [st |-> "dummy", key |-> 0]
Active(key) == [st |-> "active", key |-> key]

\* set(): table[i + 1] is slot i
EmptySet ==
    [table |-> [i \in 1..PySet_MINSIZE |-> Unused], fill |-> 0, used |-> 0]

Mask(s) == Len(s.table) - 1

\* the keys of a set
Members(s) ==
    {s.table[i].key : i \in {j \in 1..Len(s.table) : s.table[j].st = "active"}}

\* the bits perturb loses at each jump of the probe
PERTURB_SHIFT == 5

Probes(i, mask) == IF i + LINEAR_PROBES <= mask THEN LINEAR_PROBES ELSE 0

\* hash(key): the int itself, but -2 for -1
Hash(key) == IF key = -1 THEN -2 ELSE key

\* perturb = hash as an unsigned number of 64 bits: low, or 2^top + low
\* for a negative hash
Perturb(h) == [top |-> IF h < 0 THEN 64 ELSE -1, low |-> h]

\* perturb >>= PERTURB_SHIFT
Shifted(p) ==
    IF p.top >= PERTURB_SHIFT
    THEN [top |-> p.top - PERTURB_SHIFT, low |-> p.low \div 2^PERTURB_SHIFT]
    ELSE IF p.top >= 0
         THEN [top |-> -1, low |-> (2^p.top + p.low) \div 2^PERTURB_SHIFT]
         ELSE [top |-> -1, low |-> p.low \div 2^PERTURB_SHIFT]

\* 2^e modulo n
RECURSIVE Pow2Mod(_, _)
Pow2Mod(e, n) == IF e = 0 THEN 1 % n ELSE (2 * Pow2Mod(e - 1, n)) % n

\* i = (i * 5 + 1 + perturb) & mask, in a table of n slots
NextSlot(i, p, n) ==
    (i * 5 + 1 + (IF p.top < 0 THEN 0 ELSE Pow2Mod(p.top, n)) + (p.low % n))
        % n

\* set_add_entry's probe for key in table t, at offset k of the row that
\* began at slot i: the slot that holds the key, or the slot a new key
\* goes to, which is the last dummy passed or else the unused slot reached
RECURSIVE Lookup(_, _, _, _, _, _)
Lookup(t, key, i, k, perturb, free) ==
    LET e == t[i + k + 1]
    IN  IF e.st = "unused"
        THEN [found |-> FALSE, at |-> IF free < 0 THEN i + k ELSE free,
              fresh |-> free < 0]
        ELSE IF e.st = "active" /\ e.key = key
        THEN [found |-> TRUE, at |-> i + k, fresh |-> FALSE]
        ELSE LET f == IF e.st = "dummy" THEN i + k ELSE free
             IN  IF k < Probes(i, Len(t) - 1)
                 THEN Lookup(t, key, i, k + 1, perturb, f)
                 ELSE Lookup(t, key, NextSlot(i, Shifted(perturb), Len(t)),
                             0, Shifted(perturb), f)

Find(s, key) ==
    Lookup(s.table, key, Hash(key) % Len(s.table), 0, Perturb(Hash(key)), -1)

\* set_insert_clean: the first unused slot on the key's probe path
RECURSIVE CleanSlot(_, _, _, _)
CleanSlot(t, i, k, perturb) ==
    IF t[i + k + 1].st = "unused" THEN i + k
    ELSE IF k < Probes(i, Len(t) - 1)
         THEN CleanSlot(t, i, k + 1, perturb)
         ELSE CleanSlot(t, NextSlot(i, Shifted(perturb), Len(t)), 0,
                        Shifted(perturb))

\* set_table_resize: the size of the new table
RECURSIVE Grow(_, _)
Grow(n, minused) == IF n <= minused THEN Grow(2 * n, minused) ELSE n

\* set_table_resize: the keys of the old table from entry k on, put into
\* the new table in the old table's order
RECURSIVE Rebuild(_, _, _)
Rebuild(old, k, new) ==
    IF k > Len(old) THEN new
    ELSE IF old[k].st # "active" THEN Rebuild(old, k + 1, new)
    ELSE LET key == old[k].key
             at == CleanSlot(new, Hash(key) % Len(new), 0,
                             Perturb(Hash(key)))
         IN  Rebuild(old, k + 1, [new EXCEPT ![at + 1] = Active(key)])

set_table_resize(s, minused) ==
    [table |-> Rebuild(s.table, 1,
                       [i \in 1..Grow(PySet_MINSIZE, minused) |-> Unused]),
     fill |-> s.used, used |-> s.used]

\* set.add (set_add_entry): a present key changes nothing; a new key takes
\* a dummy's slot or an unused one, and the table is rebuilt when three
\* fifths of it have been used, for four times its keys, or twice when it
\* holds more than 50000
set_add(s, key) ==
    LET r == Find(s, key)
        n == [table |-> [s.table EXCEPT ![r.at + 1] = Active(key)],
              fill |-> IF r.fresh THEN s.fill + 1 ELSE s.fill,
              used |-> s.used + 1]
    IN  IF r.found THEN s
        ELSE IF r.fresh /\ n.fill * 5 >= Mask(s) * 3
             THEN set_table_resize(n, IF n.used > 50000 THEN n.used * 2
                                                       ELSE n.used * 4)
             ELSE n

\* set.remove of a key: its entry becomes a dummy
set_discard(s, key) ==
    LET r == Find(s, key)
    IN  IF r.found
        THEN [s EXCEPT !.table[r.at + 1] = DummyEntry, !.used = @ - 1]
        ELSE s

\* key in set
set_contains(s, key) == Find(s, key).found

\* the keys from entry k of the table on, in the table's order
RECURSIVE Scan(_, _)
Scan(t, k) ==
    IF k > Len(t) THEN <<>>
    ELSE (IF t[k].st = "active" THEN <<t[k].key>> ELSE <<>>) \o Scan(t, k + 1)

\* a variant of ListOf that misses the first slots of the table
ListOfTail(s) == Scan(s.table, 4)

\* list(subs): the members in the order the set's table holds them
ListOf(s) == Scan(s.table, 1)

\* set(ids): the ids from the k-th on, added one by one to s
RECURSIVE SetOfFrom(_, _, _)
SetOfFrom(ids, k, s) ==
    IF k > Len(ids) THEN s ELSE SetOfFrom(ids, k + 1, set_add(s, ids[k]))

SetOf(ids) == SetOfFrom(ids, 1, EmptySet)

Range(s) == {s[i] : i \in 1..Len(s)}

----------------------------------------------------------------------------
(* The subscriber file *)

MissingFile == [st |-> "missing", ids |-> <<>>]

\* what load_subscribers gives for a file that is no JSON text: the
\* exception of json.load, which lines 36-37 do not catch
JSONDecodeError == [raised |-> "JSONDecodeError"]

\* load_subscribers: set(json.load(f)); a missing file is the empty set
load_subscribers(f) ==
    CASE f.st = "missing" -> EmptySet
      [] f.st = "ok"      -> SetOf(f.ids)
      [] f.st = "corrupt" -> JSONDecodeError

\* how a call of save_subscribers may end: written, open() raised,
\* or the write raised after open(..., 'w') had truncated the file
WriteOutcomes == {"ok", "open_error", "write_error"}

\* save_subscribers(subs): the file after the call
save_subscribers(f, subs, w) ==
    CASE w = "ok"          -> [st |-> "ok", ids |-> ListOf(subs)]
      [] w = "open_error"  -> f
      [] w = "write_error" -> [st |-> "corrupt", ids |-> <<>>]

----------------------------------------------------------------------------
(* get_coffee_price *)

\* a variant of MAX_RETRIES with one more try
RetriesPlusOne == 3 + 1

MAX_RETRIES == 3

ticker_symbols == <<"KC=F", "COFFEE_F", "JO">>

Callers == {"price", "job"}

\* a provider's answer: for history(), the rows of the frame; for the
\* direct query, regularMarketPrice and, when the payload has it,
\* regularMarketTime, and the clock's reading
Outcome(kind, raw) ==
    [kind |-> kind, raw |-> raw, rows |-> <<>>, timed |-> FALSE, time |-> 0,
     now |-> 0]

Row(close, day) == [close |-> close, day |-> day]

\* the frames history(period="7d") may return: rows in the order of time
Frames ==
    {<<Row(385, 3)>>, <<Row(385, 3), Row(52, 4)>>}

\* the usable answers of the direct endpoint: with and without a time
DirectSamples ==
    {[Outcome("ok", 385) EXCEPT !.timed = TRUE, !.time = 4, !.now = n]
        : n \in Clock}
    \cup {[Outcome("ok", 52) EXCEPT !.now = n] : n \in Clock}

\* what one coffee.history(period="7d") attempt may give: usable data,
\* "empty" (data.empty, or no usable Close column: lines 76 and 78 fail),
\* or an exception anywhere in the try block
YfOutcomes ==
    {[Outcome("ok", 0) EXCEPT !.rows = fr] : fr \in Frames}
    \cup {Outcome(k, 0) : k \in {"empty", "exception"}}

\* what the requests.get of the fallback may give
DirectOutcomes ==
    DirectSamples
    \cup {Outcome(k, 0) : k \in {"exception", "status", "shape"}}

NoAttempt == [ticker |-> 0, attempt |-> 0, outcome |-> "none",
              pre |-> <<>>, prev |-> "none", sample |-> Outcome("none", 0)]

\* line 85: pounds per kilogram, 2.20462, in units of 0.00001
PoundsToKg == 220462

\* the whole prices per pound, below 9741, whose product with the double
\* 2.20462 lies above the midpoint of two thousandths; the other products
\* that are midpoints in exact arithmetic lie below it as doubles
TiesRoundedUp == {975, 7775, 8575}

\* lines 85 and 111, printed by :.3f: the thousandths of the price per kg
\* of a price per pound of num / den, for num below 9741 and den 1 or 100
PerKgMilli(num, den) ==
    LET n == num * PoundsToKg
        d == den * 100
        q == n \div d
        r == n % d
        up == \/ r > d \div 2
              \/ r = d \div 2 /\ den = 1 /\ num \in TiesRoundedUp
    IN  IF up THEN q + 1 ELSE q

\* lines 82-83: only KC=F is divided by 100
CentsDivisor(ticker) == IF ticker = "KC=F" THEN 100 ELSE 1

\* line 79: data["Close"].iloc[-1]
LastClose(rows) == rows[Len(rows)].close

\* line 86: data.index[-1]
LastDate(rows) == rows[Len(rows)].day

\* lines 79-89: the quote of a usable frame
YfQuote(ticker, o) ==
    QuoteText(ticker, LastClose(o.rows),
              PerKgMilli(LastClose(o.rows), CentsDivisor(ticker)),
              LastDate(o.rows))

\* lines 109-118: the quote of a usable direct answer
DirectQuote(o) ==
    QuoteText("direct", o.raw, PerKgMilli(o.raw, 100),
              IF o.timed THEN o.time ELSE o.now)

\* the frame before get_coffee_price is called
FetchIdle ==
    [pc |-> "idle", ticker |-> 1, attempt |-> 0,
     queries |-> [i \in 1..Len(ticker_symbols) |-> 0],
     fails |-> [i \in 1..Len(ticker_symbols) |-> 0],
     direct |-> 0, pending |-> <<>>, last |-> NoAttempt,
     result |-> NoMessage]

\* the frame on entry of the loops of lines 60-61
FetchStart == [FetchIdle EXCEPT !.pc = "loop"]

\* lines 76-78: the data is usable
Usable(o) == o.kind = "ok"

\* the attempt ended in the except clause of line 91
Raised(o) == o.kind = "exception"

\* lines 93-95: the longer pause after an exception, but not after the last try
PauseAfter(o, attempt) ==
    IF Raised(o) /\ attempt < MAX_RETRIES - 1 THEN <<"long">> ELSE <<>>

\* lines 60-61: the next position of the two loops after a failed attempt
Advance(f) ==
    IF f.attempt + 1 < MAX_RETRIES
    THEN [f EXCEPT !.attempt = @ + 1]
    ELSE IF f.ticker < Len(ticker_symbols)
         THEN [f EXCEPT !.ticker = @ + 1, !.attempt = 0]
         ELSE [f EXCEPT !.pc = "fallback"]

\* a variant of AfterAttempt that notes the quote but does not return
AfterAttemptNoReturn(q, o) ==
    IF Usable(o)
    THEN Advance([q EXCEPT !.result = YfQuote(ticker_symbols[q.ticker], o)])
    ELSE Advance([q EXCEPT !.fails[q.ticker] = @ + 1,
                           !.pending = PauseAfter(o, q.attempt)])

\* lines 89, 96: a usable sample returns, anything else goes on
AfterAttempt(q, o) ==
    IF Usable(o)
    THEN [q EXCEPT !.pc = "done",
                   !.result = YfQuote(ticker_symbols[q.ticker], o)]
    ELSE Advance([q EXCEPT !.fails[q.ticker] = @ + 1,
                           !.pending = PauseAfter(o, q.attempt)])

\* lines 62-96: one pass of the inner loop, the provider answering o
YfAttempt(f, o) ==
    LET q == [f EXCEPT
                !.queries[f.ticker] = @ + 1,
                !.pending = <<>>,
                !.last = [ticker |-> f.ticker, attempt |-> f.attempt,
                          outcome |-> o.kind, sample |-> o,
                          pre |-> f.pending \o <<"short">>,
                          prev |-> IF f.attempt = 0 THEN "none"
                                   ELSE f.last.outcome]]
    IN  AfterAttempt(q, o)

\* a variant of Fallback that retries a failed direct query
FallbackRetrying(f, o) ==
    [f EXCEPT !.direct = @ + 1,
              !.pc = IF o.kind = "ok" \/ f.direct + 1 >= MAX_RETRIES
                     THEN "done" ELSE "fallback",
              !.last = [ticker |-> Len(ticker_symbols) + 1, attempt |-> 0,
                        outcome |-> o.kind, sample |-> o,
                        pre |-> f.pending, prev |-> "none"],
              !.pending = <<>>,
              !.result = IF o.kind = "ok" THEN DirectQuote(o)
                         ELSE UnavailableText]

\* a variant of Fallback that falls off the end when the query failed
FallbackNoText(f, o) ==
    [f EXCEPT !.direct = @ + 1,
              !.pc = "done",
              !.last = [ticker |-> Len(ticker_symbols) + 1, attempt |-> 0,
                        outcome |-> o.kind, sample |-> o,
                        pre |-> f.pending, prev |-> "none"],
              !.pending = <<>>,
              !.result = IF o.kind = "ok" THEN DirectQuote(o)
                         ELSE NoMessage]

\* lines 98-122: the direct query, the endpoint answering o
Fallback(f, o) ==
    [f EXCEPT !.direct = @ + 1,
              !.pc = "done",
              !.last = [ticker |-> Len(ticker_symbols) + 1, attempt |-> 0,
                        outcome |-> o.kind, sample |-> o,
                        pre |-> f.pending, prev |-> "none"],
              !.pending = <<>>,
              !.result = IF o.kind = "ok" THEN DirectQuote(o)
                         ELSE UnavailableText]

----------------------------------------------------------------------------
\* every order in which a file may list a set of ids
IdLists ==
    {s \in UNION {[1..n -> ChatIds] : n \in 0..Cardinality(ChatIds)} :
        \A i, j \in 1..Len(s) : i # j => s[i] # s[j]}

\* an entry of the history: a command, how it ended, and the set after it
LogEntry(cmd, c, result, write, sent, subs) ==
    [cmd |-> cmd, chat |-> c, result |-> result, write |-> write,
     replies |-> sent, subs |-> subs]

\* a list of a file that also names chats which send no command here: its
\* set rebuilds its table when the next id is added, and so does the set
\* loaded from the file that is then written
LongLists == {<<7, 15, 50, -1>>}

Init ==
    /\ file \in {MissingFile}
                \cup {[st |-> "ok", ids |-> s] : s \in IdLists \cup LongLists}
    /\ subscribers = load_subscribers(file)
    /\ hpc = "idle"
    /\ hcmd = "none"
    /\ hchat = 0
    /\ hresult = "none"
    /\ hwrite = "none"
    /\ replies = <<>>
    /\ ncmds = 0
    /\ writes = 0
    /\ log = <<LogEntry("load", 0, "returned", "none", <<>>,
                        Members(subscribers))>>
    /\ jpc = "idle"
    /\ message = NoMessage
    /\ it = [pos |-> 0, used |-> 0]
    /\ began = {}
    /\ cur = 0
    /\ sends = <<>>
    /\ njobs = 0
    /\ fetch = [c \in Callers |-> FetchIdle]

----------------------------------------------------------------------------
(* get_coffee_price, step by step *)

\* one pass of the loop of get_coffee_price, for either caller
FetchAttempt(c) ==
    /\ fetch[c].pc = "loop"
    /\ \E o \in YfOutcomes : fetch' = [fetch EXCEPT ![c] = YfAttempt(@, o)]
    /\ UNCHANGED <<storeVars, handlerVars, jobVars>>

\* the fallback of get_coffee_price, for either caller
FetchFallback(c) ==
    /\ fetch[c].pc = "fallback"
    /\ \E o \in DirectOutcomes : fetch' = [fetch EXCEPT ![c] = Fallback(@, o)]
    /\ UNCHANGED <<storeVars, handlerVars, jobVars>>

----------------------------------------------------------------------------
(* The command handlers, run one at a time by the event loop *)

\* the event loop takes the next update and calls its handler
Begin(cmd, c) ==
    /\ hpc = "idle"
    /\ ncmds' = ncmds + 1
    /\ hcmd' = cmd
    /\ hchat' = c
    /\ hwrite' = "none"

\* line 139: subscribers.add(chat_id)
Added(subs, c) == set_add(subs, c)

\* a variant of Removed that leaves the id in the set
RemovedNothing(subs, c) == subs

\* line 153: subscribers.remove(chat_id)
Removed(subs, c) == set_discard(subs, c)

\* a variant of IsSubscribed that takes every id for a subscriber
IsSubscribedAlways(subs, c) == TRUE

\* line 152: chat_id in subscribers
IsSubscribed(subs, c) == set_contains(subs, c)

\* how one reply_text call may end: it returns, or it raises
ReplyOutcomes == {"ok", "fail"}

\* a reply_text call: its text and how it ended
Sent(text, o) == [text |-> text, outcome |-> o]

\* no handler catches the exception of reply_text
AfterReply(o) == IF o = "ok" THEN "returned" ELSE "raised"

\* lines 141 and 155: the reply after a successful save
SavedReply(cmd) == IF cmd = "start" THEN WelcomeText ELSE UnsubscribedText

\* start, lines 138-139
StartAdd(c) ==
    /\ Begin("start", c)
    /\ subscribers' = Added(subscribers, c)
    /\ hpc' = "save"
    /\ hresult' = "none"
    /\ replies' = <<>>
    /\ UNCHANGED <<file, writes, jobVars, fetch>>

\* unsubscribe, lines 151-153; in the else branch the handler goes on to
\* the reply_text of line 157
UnsubscribeRemove(c) ==
    /\ Begin("unsubscribe", c)
    /\ IF IsSubscribed(subscribers, c)
       THEN /\ subscribers' = Removed(subscribers, c)
            /\ hpc' = "save"
       ELSE /\ subscribers' = subscribers
            /\ hpc' = "reply"
    /\ hresult' = "none"
    /\ replies' = <<>>
    /\ UNCHANGED <<file, writes, jobVars, fetch>>

\* lines 140 and 154: save_subscribers(subscribers); an exception of the
\* write leaves the handler, and the framework logs it and goes on
Save ==
    /\ hpc = "save"
    /\ \E w \in WriteOutcomes :
          /\ file' = save_subscribers(file, subscribers, w)
          /\ hpc' = IF w = "ok" THEN "reply" ELSE "idle"
          /\ hresult' = IF w = "ok" THEN hresult ELSE "raised"
          /\ hwrite' = w
    /\ writes' = writes + 1
    /\ UNCHANGED <<subscribers, hcmd, hchat, replies, ncmds, jobVars, fetch>>

\* the text of the one reply_text of /start, /unsubscribe and /help:
\* line 162 for /help, line 157 when /unsubscribe saved nothing, else the
\* reply after the save
ReplyText(cmd, w) ==
    CASE cmd = "help"                       -> HelpText
      [] cmd = "unsubscribe" /\ w = "none"  -> NotSubscribedText
      [] OTHER                              -> SavedReply(cmd)

\* lines 141, 155, 157 and 162: await reply_text; the handler stands at
\* the call until it returns or raises
Reply ==
    /\ hpc = "reply"
    /\ \E o \in ReplyOutcomes :
          /\ replies' = Append(replies, Sent(ReplyText(hcmd, hwrite), o))
          /\ hresult' = AfterReply(o)
    /\ hpc' = "idle"
    /\ UNCHANGED <<storeVars, hcmd, hchat, hwrite, ncmds, jobVars, fetch>>

\* help_command, lines 161-162: the handler is called and goes on to the
\* reply_text of line 162
Help(c) ==
    /\ Begin("help", c)
    /\ hpc' = "reply"
    /\ hresult' = "none"
    /\ replies' = <<>>
    /\ UNCHANGED <<storeVars, jobVars, fetch>>

\* price, line 144: the handler is called and goes on to the reply_text of
\* line 145
PriceBegin(c) ==
    /\ Begin("coffeeprice", c)
    /\ hpc' = "notice"
    /\ hresult' = "none"
    /\ replies' = <<>>
    /\ UNCHANGED <<storeVars, jobVars, fetch>>

\* price, lines 145-146: await reply_text with the notice and, when it has
\* returned, the entry of get_coffee_price
PriceNotice ==
    /\ hpc = "notice"
    /\ \E o \in ReplyOutcomes :
          /\ replies' = Append(replies, Sent(FetchingText, o))
          /\ IF o = "ok"
             THEN /\ hpc' = "fetch"
                  /\ hresult' = "none"
                  /\ fetch' = [fetch EXCEPT !["price"] = FetchStart]
             ELSE /\ hpc' = "idle"
                  /\ hresult' = AfterReply(o)
                  /\ fetch' = fetch
    /\ UNCHANGED <<storeVars, hcmd, hchat, hwrite, ncmds, jobVars>>

\* price, lines 146-147: get_coffee_price has returned, its text is sent
PriceReply ==
    /\ hpc = "fetch"
    /\ fetch["price"].pc = "done"
    /\ \E o \in ReplyOutcomes :
          /\ replies' = Append(replies, Sent(fetch["price"].result, o))
          /\ hresult' = AfterReply(o)
    /\ hpc' = "idle"
    /\ fetch' = [fetch EXCEPT !["price"] = FetchIdle]
    /\ UNCHANGED <<storeVars, hcmd, hchat, hwrite, ncmds, jobVars>>

----------------------------------------------------------------------------
(* job / send_daily_price, run by the scheduler's thread *)

\* how one bot.send_message may end
SendOutcomes == {"ok", "fail"}

\* iter(subscribers): the iterator remembers the set's size
SetIter(subs) == [pos |-> 0, used |-> subs.used]

\* the active slots of the live table at or after slot p
ActiveFrom(subs, p) ==
    {j \in p..Mask(subs) : subs.table[j + 1].st = "active"}

\* next(iterator) on the live set: RuntimeError when the size changed since
\* iter(), else the key of the first active slot at or after pos
SetIterNext(subs, i) ==
    IF subs.used # i.used
    THEN [kind |-> "raise", value |-> 0, pos |-> i.pos]
    ELSE IF ActiveFrom(subs, i.pos) # {}
         THEN LET j == CHOOSE j \in ActiveFrom(subs, i.pos) :
                          \A k \in ActiveFrom(subs, i.pos) : j <= k
              IN  [kind |-> "yield", value |-> subs.table[j + 1].key,
                   pos |-> j + 1]
         ELSE [kind |-> "stop", value |-> 0, pos |-> i.pos]

\* what the loop iterates: the module-level set itself (line 127)
Iterated(subs) == subs

\* lines 127-128: a failed send raises out of the loop
AfterSend(o) == IF o = "ok" THEN "next" ELSE "raised"

\* the scheduler fires: job(), line 133, enters get_coffee_price, line 126
JobBegin ==
    /\ jpc \in {"idle", "done", "raised"}
    /\ njobs < MaxJobs
    /\ njobs' = njobs + 1
    /\ jpc' = "fetch"
    /\ fetch' = [fetch EXCEPT !["job"] = FetchStart]
    /\ message' = NoMessage
    /\ it' = [pos |-> 0, used |-> 0]
    /\ began' = {}
    /\ cur' = 0
    /\ sends' = <<>>
    /\ UNCHANGED <<storeVars, handlerVars>>

\* line 126: message is bound; line 127: the for loop takes its iterator
JobIter ==
    /\ jpc = "fetch"
    /\ fetch["job"].pc = "done"
    /\ message' = fetch["job"].result
    /\ fetch' = [fetch EXCEPT !["job"] = FetchIdle]
    /\ it' = SetIter(Iterated(subscribers))
    /\ began' = Members(subscribers)
    /\ jpc' = "next"
    /\ UNCHANGED <<storeVars, handlerVars, cur, sends, njobs>>

\* line 127: the loop asks for the next chat_id; line 129 when it has none
JobNext ==
    /\ jpc = "next"
    /\ LET r == SetIterNext(Iterated(subscribers), it)
       IN  /\ jpc' = CASE r.kind = "raise" -> "raised"
                       [] r.kind = "yield" -> "send"
                       [] r.kind = "stop"  -> "done"
           /\ cur' = IF r.kind = "yield" THEN r.value ELSE cur
           /\ it' = [it EXCEPT !.pos = r.pos]
    /\ UNCHANGED <<storeVars, handlerVars, message, began, sends, njobs, fetch>>

\* a variant of JobSend that drops the chat whose send failed
JobSendDropping ==
    /\ jpc = "send"
    /\ \E o \in SendOutcomes :
          /\ sends' = Append(sends, [to |-> cur, text |-> message, outcome |-> o])
          /\ jpc' = AfterSend(o)
          /\ subscribers' = IF o = "fail" THEN Removed(subscribers, cur)
                                          ELSE subscribers
    /\ UNCHANGED <<file, writes, handlerVars, message, it, began, cur, njobs,
                   fetch>>

\* line 128: await bot.send_message(chat_id, message)
JobSend ==
    /\ jpc = "send"
    /\ \E o \in SendOutcomes :
          /\ sends' = Append(sends, [to |-> cur, text |-> message, outcome |-> o])
          /\ jpc' = AfterSend(o)
    /\ UNCHANGED <<storeVars, handlerVars, message, it, began, cur, njobs,
                   fetch>>

----------------------------------------------------------------------------
(* Specifications *)

\* the history of the store commands: one entry when a handler ends
Finished == hpc' = "idle" /\ (hpc # "idle" \/ ncmds' # ncmds)

LogStep ==
    log' = IF Finished /\ hcmd' \in {"start", "unsubscribe"}
           THEN Append(log, LogEntry(hcmd', hchat', hresult', hwrite',
                                     replies', Members(subscribers')))
           ELSE log

\* /coffeeprice and /help in the event loop
NextFetch ==
    \/ ncmds < MaxCmds /\ \E c \in ChatIds : PriceBegin(c)
    \/ PriceNotice
    \/ FetchAttempt("price")
    \/ FetchFallback("price")
    \/ PriceReply
    \/ ncmds < MaxCmds /\ \E c \in ChatIds : Help(c)
    \/ Reply

SpecFetch == Init /\ [][NextFetch /\ UNCHANGED log]_vars

\* the same, where a call of get_coffee_price that can go on does go on:
\* every sleep ends and every provider call returns or raises
SpecFetchFair ==
    /\ SpecFetch
    /\ WF_vars(FetchAttempt("price") /\ UNCHANGED log)
    /\ WF_vars(FetchFallback("price") /\ UNCHANGED log)

\* /start and /unsubscribe in the event loop, with their history
NextStore ==
    \/ ncmds < MaxCmds /\ \E c \in ChatIds : StartAdd(c)
    \/ ncmds < MaxCmds /\ \E c \in ChatIds : UnsubscribeRemove(c)
    \/ Save
    \/ Reply

SpecStore == Init /\ [][NextStore /\ LogStep]_vars

\* the four commands in the event loop
NextCommands ==
    \/ ncmds < MaxCmds /\ \E c \in ChatIds : StartAdd(c)
    \/ ncmds < MaxCmds /\ \E c \in ChatIds : UnsubscribeRemove(c)
    \/ Save
    \/ Reply
    \/ ncmds < MaxCmds /\ \E c \in ChatIds : PriceBegin(c)
    \/ PriceNotice
    \/ FetchAttempt("price")
    \/ FetchFallback("price")
    \/ PriceReply
    \/ ncmds < MaxCmds /\ \E c \in ChatIds : Help(c)

SpecCommands == Init /\ [][NextCommands /\ UNCHANGED log]_vars

\* the scheduled job in its thread, beside /start and /unsubscribe
Next ==
    \/ ncmds < MaxJobCmds /\ \E c \in ChatIds : StartAdd(c)
    \/ ncmds < MaxJobCmds /\ \E c \in ChatIds : UnsubscribeRemove(c)
    \/ Save
    \/ Reply
    \/ JobBegin
    \/ FetchAttempt("job")
    \/ FetchFallback("job")
    \/ JobIter
    \/ JobNext
    \/ JobSend

Spec == Init /\ [][Next /\ UNCHANGED log]_vars

\* the whole program: the four commands in the event loop and the
\* scheduled job in its thread
NextAll ==
    \/ ncmds < MaxAllCmds /\ \E c \in ChatIds : StartAdd(c)
    \/ ncmds < MaxAllCmds /\ \E c \in ChatIds : UnsubscribeRemove(c)
    \/ Save
    \/ Reply
    \/ ncmds < MaxAllCmds /\ \E c \in ChatIds : PriceBegin(c)
    \/ PriceNotice
    \/ FetchAttempt("price")
    \/ FetchFallback("price")
    \/ PriceReply
    \/ ncmds < MaxAllCmds /\ \E c \in ChatIds : Help(c)
    \/ JobBegin
    \/ FetchAttempt("job")
    \/ FetchFallback("job")
    \/ JobIter
    \/ JobNext
    \/ JobSend

SpecAll == Init /\ [][NextAll /\ UNCHANGED log]_vars

----------------------------------------------------------------------------
(* Properties of get_coffee_price *)

\* the position of a symbol in ticker_symbols
IndexOf(sym) == CHOOSE i \in 1..Len(ticker_symbols) : ticker_symbols[i] = sym

Queries(c, sym) == fetch[c].queries[IndexOf(sym)]
Fails(c, sym) == fetch[c].fails[IndexOf(sym)]

AllSymbolsFailed(c) ==
    \A i \in 1..Len(ticker_symbols) : fetch[c].fails[i] = 3

\* C1: in a run of get_coffee_price the symbols are tried in the order
\* KC=F, COFFEE_F, JO; no symbol is attempted more than 3 times; a later
\* symbol is attempted only after 3 failed attempts of the one before; and
\* once an attempt has succeeded the run is over, with exactly one
\* successful attempt, no attempt of a later symbol and no fallback query.
C1_CascadeOrder ==
    \A c \in Callers :
        /\ \A sym \in {"KC=F", "COFFEE_F", "JO"} : Queries(c, sym) <= 3
        /\ Queries(c, "COFFEE_F") > 0 => Fails(c, "KC=F") = 3
        /\ Queries(c, "JO") > 0 => Fails(c, "COFFEE_F") = 3
        /\ \A i \in 1..Len(ticker_symbols) :
              fetch[c].queries[i] > fetch[c].fails[i] =>
                 /\ fetch[c].pc = "done"
                 /\ fetch[c].queries[i] = fetch[c].fails[i] + 1
                 /\ fetch[c].result.src = ticker_symbols[i]
                 /\ \A j \in (i + 1)..Len(ticker_symbols) :
                       fetch[c].queries[j] = 0
                 /\ fetch[c].direct = 0

\* C1's case: JO succeeds at its second attempt, after KC=F and COFFEE_F
\* have failed three times each
C1_Witness ==
    /\ fetch["price"].pc = "done"
    /\ Fails("price", "KC=F") = 3
    /\ Fails("price", "COFFEE_F") = 3
    /\ Fails("price", "JO") = 1
    /\ Queries("price", "JO") = 2
    /\ fetch["price"].result.kind = "quote"

\* C2: when get_coffee_price has returned, its result is a complete quote
\* text or the fixed unavailable text, and it is the unavailable text when
\* every attempt of every symbol and the fallback have failed; the price
\* handler that called it has not been left by an exception.
C2_QuoteOrUnavailable ==
    \A c \in Callers :
        fetch[c].pc = "done" =>
            /\ \/ fetch[c].result = UnavailableText
               \/ /\ fetch[c].result.kind = "quote"
                  /\ fetch[c].result.src \in
                        {"KC=F", "COFFEE_F", "JO", "direct"}
                  /\ fetch[c].result.raw \in RawPrices
            /\ (AllSymbolsFailed(c) /\ fetch[c].last.outcome # "ok")
                  => fetch[c].result = UnavailableText
            /\ fetch[c].result = UnavailableText
                  => AllSymbolsFailed(c) /\ fetch[c].direct = 1
            /\ c = "price" => hpc = "fetch" /\ hresult # "raised"

\* C2's case: nine failed attempts, then a fallback answer without the
\* expected fields
C2_Witness ==
    /\ fetch["price"].pc = "done"
    /\ AllSymbolsFailed("price")
    /\ fetch["price"].last.outcome = "shape"
    /\ fetch["price"].result = UnavailableText

\* C3: the direct query is issued at most once in a run of
\* get_coffee_price, and only when each of the three symbols has failed
\* all 3 of its attempts.
C3_FallbackOnce ==
    \A c \in Callers :
        /\ fetch[c].direct <= 1
        /\ (fetch[c].direct > 0 \/ fetch[c].pc = "fallback")
              => /\ AllSymbolsFailed(c)
                 /\ \A i \in 1..Len(ticker_symbols) : fetch[c].queries[i] = 3
        /\ (fetch[c].direct = 1) => fetch[c].pc = "done"

\* C3's case: the direct query has failed, and the run is over
C3_Witness ==
    /\ fetch["price"].direct = 1
    /\ fetch["price"].last.outcome = "exception"
    /\ fetch["price"].last.ticker = Len(ticker_symbols) + 1
    /\ fetch["price"].pc = "done"

----------------------------------------------------------------------------
(* Properties of the broadcast *)

Recipients == {sends[i].to : i \in 1..Len(sends)}

SendsWith(o) == Cardinality({i \in 1..Len(sends) : sends[i].outcome = o})

BroadcastEnded == jpc \in {"done", "raised"}

\* C4: when a broadcast has ended and no command was handled meanwhile, it
\* has completed without raising and a send was attempted to every
\* subscriber, whatever sends failed; with 3 subscribers and the second
\* send failing, 3 sends were attempted, 2 succeeded and 1 failed.
C4_SendFailureIsolated ==
    (BroadcastEnded /\ ncmds = 0) =>
        /\ jpc = "done"
        /\ Recipients = Members(subscribers)
        /\ Len(sends) = subscribers.used
        /\ (subscribers.used = 3 /\ Len(sends) >= 2
              /\ sends[2].outcome = "fail")
             => /\ Len(sends) = 3
                /\ SendsWith("ok") = 2
                /\ SendsWith("fail") = 1

\* C5: the broadcast iterates a copy of the set taken when the loop began:
\* whatever /start and /unsubscribe do after its first send, a broadcast
\* in which no send failed neither fails nor skips nor repeats a member of
\* that copy.
C5_SnapshotIteration ==
    /\ (jpc \in {"next", "send"} /\ SendsWith("fail") = 0)
          => Recipients \subseteq began /\ Len(sends) = Cardinality(Recipients)
    /\ (BroadcastEnded /\ SendsWith("fail") = 0 /\ Len(sends) >= 1)
          => /\ jpc = "done"
             /\ Recipients = began
             /\ Len(sends) = Cardinality(began)

----------------------------------------------------------------------------
(* Properties of the subscriber store *)

\* the texts of a handler's reply_text calls
Texts(sent) == [i \in 1..Len(sent) |-> sent[i].text]

\* the ids the file lists, when it can be read
FileHolds(S) == file.st # "corrupt" /\ Members(load_subscribers(file)) = S

WriteFailed == hwrite \in {"open_error", "write_error"}

\* C6: whenever no handler is in the middle of its operation, the file
\* lists exactly the ids of the in-memory set, also after a failed write.
C6_FileMatchesMemory == hpc = "idle" => FileHolds(Members(subscribers))

\* C7: a /start or /unsubscribe whose write failed has sent no success
\* reply, has sent one reply that tells of the failure, and has returned
\* rather than raised.
C7_FailureReply ==
    (hpc = "idle" /\ hcmd \in {"start", "unsubscribe"} /\ WriteFailed) =>
        /\ WelcomeText \notin Range(Texts(replies))
        /\ UnsubscribedText \notin Range(Texts(replies))
        /\ Len(replies) = 1
        /\ hresult = "returned"

\* entry k of the history is a /start that has saved and replied, of an
\* id that was (or was not) a member before it
StartOf(k, member) ==
    /\ log[k].cmd = "start"
    /\ log[k].write = "ok"
    /\ Len(log[k].replies) = 1
    /\ (log[k].chat \in log[k - 1].subs) = member

\* C8: a /start of an id that is already subscribed leaves the set as it
\* was, and its reply differs from the reply of a /start that newly added
\* an id.
C8_ResubscribeReported ==
    \A k \in 2..Len(log) :
        StartOf(k, TRUE) =>
            /\ log[k].subs = log[k - 1].subs
            /\ \A j \in 2..Len(log) :
                  StartOf(j, FALSE) =>
                      Texts(log[k].replies) # Texts(log[j].replies)

\* C9: an /unsubscribe of an id that is not in the set goes straight to
\* its reply, which is 'not subscribed', that text and no other, and ends
\* with it: the set and the file are as before and save_subscribers has not
\* been called.
C9_AbsentUnsubscribe ==
    [][/\ (/\ hpc = "idle"
           /\ ncmds' = ncmds + 1
           /\ hcmd' = "unsubscribe"
           /\ hchat' \notin Members(subscribers))
          => /\ hpc' = "reply"
             /\ replies' = <<>>
             /\ hwrite' = "none"
             /\ UNCHANGED storeVars
       /\ (hpc = "reply" /\ hcmd = "unsubscribe" /\ hwrite = "none")
          => /\ Texts(replies') = <<NotSubscribedText>>
             /\ hresult' = AfterReply(replies'[1].outcome)
             /\ hwrite' = "none"
             /\ hpc' = "idle"
             /\ UNCHANGED storeVars]_vars

\* C9's case: an absent id has unsubscribed while others are subscribed
C9_Witness ==
    /\ hpc = "idle"
    /\ hcmd = "unsubscribe"
    /\ hwrite = "none"
    /\ writes = 0
    /\ hchat \notin Members(subscribers)
    /\ Members(subscribers) # {}
    /\ replies = <<Sent(NotSubscribedText, "ok")>>
    /\ log[Len(log)].subs = log[Len(log) - 1].subs

\* the history is: empty store, /start of 42, /unsubscribe of 42 and
\* /unsubscribe of 42 again, the writes of the first two succeeding
Scenario42 ==
    /\ hpc = "idle"
    /\ Len(log) = 4
    /\ log[1].subs = {}
    /\ log[2].cmd = "start" /\ log[2].chat = 42
    /\ log[2].write = "ok"
    /\ log[3].cmd = "unsubscribe" /\ log[3].chat = 42
    /\ log[3].write = "ok"
    /\ log[4].cmd = "unsubscribe" /\ log[4].chat = 42

\* C10: from an empty store, subscribe(42), unsubscribe(42),
\* unsubscribe(42) end with the set empty and the file listing no id; the
\* second unsubscribe replies 'not subscribed'; save_subscribers was called
\* exactly twice.
C10_SubscribeUnsubscribeTwice ==
    Scenario42 =>
        /\ Members(subscribers) = {}
        /\ file = [st |-> "ok", ids |-> <<>>]
        /\ Texts(log[4].replies) = <<NotSubscribedText>>
        /\ log[4].write = "none"
        /\ Texts(log[2].replies) = <<WelcomeText>>
        /\ Texts(log[3].replies) = <<UnsubscribedText>>
        /\ writes = 2

\* C10's case: the scenario has run
C10_Witness ==
    /\ Scenario42
    /\ writes = 2
    /\ ncmds = 3
    /\ \A k \in 2..4 : log[k].result = "returned"

----------------------------------------------------------------------------
(* Properties of the scheduled job *)

\* C11: a run of the job that has ended has sent the one text that
\* get_coffee_price returned (a quote or the unavailable text), exactly
\* once to each id that was in the set and to no other id; with an empty
\* set nothing was sent.
C11_OneTextToEach ==
    BroadcastEnded =>
        /\ message.kind \in {"quote", "unavailable"}
        /\ \A i \in 1..Len(sends) : sends[i].text = message
        /\ Recipients = began
        /\ Len(sends) = Cardinality(began)
        /\ began = {} => sends = <<>>

----------------------------------------------------------------------------
(* Properties of the quote *)

\* the day of the latest row of a frame, and that row's close
LatestDay(rows) ==
    CHOOSE d \in {rows[i].day : i \in 1..Len(rows)} :
        \A i \in 1..Len(rows) : rows[i].day <= d

LatestClose(rows) ==
    rows[CHOOSE i \in 1..Len(rows) : rows[i].day = LatestDay(rows)].close

Abs(x) == IF x < 0 THEN -x ELSE x

\* price, in thousandths, is raw * rule * 2.20462 to the nearest
\* thousandth, the rule being 1/100 (cents) or 1
IsPerKg(price, raw, cents) ==
    IF cents
    THEN Abs(price * 10000 - raw * 220462) <= 5000
    ELSE Abs(price * 100 - raw * 220462) <= 50

\* the price of a returned quote follows the rule of its source alone
QuotePriceRight(c) ==
    LET r == fetch[c].result
        o == fetch[c].last.sample
    IN  /\ r.src \in {"KC=F", "COFFEE_F", "JO"}
             => /\ r.raw = LatestClose(o.rows)
                /\ IsPerKg(r.price, r.raw, r.src = "KC=F")
        /\ r.src = "direct"
             => /\ r.raw = o.raw
                /\ IsPerKg(r.price, r.raw, TRUE)

IsQuote(c) == fetch[c].pc = "done" /\ fetch[c].result.kind = "quote"

\* C12: the price of every returned quote is raw * rule *
\* 2.20462 with the rule of the winning source, and its date is the date
\* of the latest timestamp of that source.
C12_DateOfSource ==
    \A c \in Callers :
        IsQuote(c) =>
            LET r == fetch[c].result
                o == fetch[c].last.sample
            IN  /\ QuotePriceRight(c)
                /\ r.src # "direct" => r.date = LatestDay(o.rows)
                /\ r.src = "direct" => o.timed /\ r.date = o.time

----------------------------------------------------------------------------
(* Round trip of the subscriber file *)

NoDuplicates(s) == \A i, j \in 1..Len(s) : i # j => s[i] # s[j]

\* C13: the file that save_subscribers has written loads as the very set
\* that was saved, each id listed once, in whatever order the ids were
\* added to the set or were listed in the file the set was loaded from.
C13_SaveLoadRoundTrip ==
    (hwrite = "ok" /\ hpc \in {"reply", "idle"}) =>
        /\ file.st = "ok"
        /\ Members(load_subscribers(file)) = Members(subscribers)
        /\ NoDuplicates(file.ids)
        /\ Len(file.ids) = subscribers.used
        /\ Cardinality(Members(subscribers)) = subscribers.used

\* C13's case: the file listed 7, 15, 50 and -1, and 42 was added: 15 had
\* met 7 in its slot, the fifth id made the set rebuild its table with 32
\* slots, and the file that was then written lists the five in the order
\* of that table and loads as the same five
C13_Witness ==
    /\ hwrite = "ok"
    /\ hpc = "idle"
    /\ Len(log) = 2
    /\ log[1].subs = {-1, 7, 15, 50}
    /\ log[2].cmd = "start" /\ log[2].chat = 42
    /\ Len(subscribers.table) = 32
    /\ file.ids = <<7, 42, 15, 50, -1>>
    /\ Members(load_subscribers(file)) = {-1, 7, 15, 42, 50}
    /\ ListOf(load_subscribers(file)) = <<7, 42, 15, 50, -1>>

----------------------------------------------------------------------------
(* Properties of the fetch in the event loop *)

SomeAttemptMade(c) == fetch[c].last.outcome # "none"

BetweenAttempts ==
    /\ hpc = "fetch"
    /\ fetch["price"].pc \in {"loop", "fallback"}
    /\ SomeAttemptMade("price")

\* C14: while the fetch of a /coffeeprice handler is between two attempts,
\* the event loop can take another command (here /help) and handle it.
C14_CommandsBetweenAttempts ==
    BetweenAttempts => ENABLED (\E c \in ChatIds : Help(c))

SymbolQueries(c) ==
    fetch[c].queries[1] + fetch[c].queries[2] + fetch[c].queries[3]

\* C17: a call of get_coffee_price makes at most 9 symbol queries and 1
\* direct query, and it ends: with a quote of a symbol, with a quote of
\* the fallback after 9 failures, or with the unavailable text.
C17_Terminates ==
    /\ [](\A c \in Callers :
            /\ SymbolQueries(c) <= 9
            /\ fetch[c].direct <= 1
            /\ SymbolQueries(c) + fetch[c].direct <= 10
            /\ fetch[c].pc = "done" =>
                  \/ fetch[c].result.kind = "quote" /\ fetch[c].direct = 0
                  \/ /\ fetch[c].result.kind = "quote"
                     /\ fetch[c].result.src = "direct"
                     /\ SymbolQueries(c) = 9
                  \/ fetch[c].result = UnavailableText /\ SymbolQueries(c) = 9)
    /\ (fetch["price"].pc = "loop") ~> (fetch["price"].pc = "done")

\* C17's case: a call has ended after 9 symbol queries and the direct one
C17_Witness ==
    /\ fetch["price"].pc = "done"
    /\ SymbolQueries("price") = 9
    /\ fetch["price"].direct = 1

\* C18: an attempt that follows a failed attempt of the same symbol comes
\* after the longer pause and the ordinary pause, whether the attempt
\* before raised or gave no usable data; the first attempt of a symbol
\* comes after the ordinary pause alone.
C18_LongerPauseAfterFailure ==
    \A c \in Callers :
        LET a == fetch[c].last
        IN  a.ticker \in 1..Len(ticker_symbols) =>
               /\ a.attempt = 0 => a.pre = <<"short">>
               /\ (a.attempt > 0 /\ a.prev \in {"empty", "exception"})
                     => a.pre = <<"long", "short">>

----------------------------------------------------------------------------
(* Replies of the handlers *)

Handled == hpc = "idle" /\ hcmd # "none"

\* C15: each handled command has sent exactly one reply text.
C15_OneReply == Handled => Len(replies) = 1


----------------------------------------------------------------------------
(* Completed operations and the persisted list *)

\* the entries of the history in which chat c's command was carried out:
\* its write succeeded, or it needed none
CompletedOf(c) ==
    {k \in 2..Len(log) : log[k].chat = c /\ log[k].write \in {"ok", "none"}}

LastCompleted(c) == CHOOSE k \in CompletedOf(c) : \A j \in CompletedOf(c) : j <= k

\* the ids whose last completed operation was a subscribe, and the ids
\* on the list at start-up for which no operation has completed
ExpectedIds ==
    {c \in ChatIds \cup log[1].subs :
        IF CompletedOf(c) = {}
        THEN c \in log[1].subs
        ELSE log[LastCompleted(c)].cmd = "start"}

\* C16: once every handler has finished, the list on disk is readable and
\* holds exactly the ids whose last completed operation was a subscribe:
\* no completed add or remove is lost, no half-applied change is persisted.
C16_PersistedIsCompleted ==
    hpc = "idle" =>
        /\ file.st # "corrupt"
        /\ Members(load_subscribers(file)) = ExpectedIds

----------------------------------------------------------------------------
(* Who changes the subscriber state *)

\* a step of the job, of get_coffee_price, or of the /coffeeprice and
\* /help handlers
OtherStep ==
    \/ jobVars' # jobVars
    \/ fetch' # fetch
    \/ hpc # "idle" /\ hcmd \in {"coffeeprice", "help"}
    \/ ncmds' # ncmds /\ hcmd' \in {"coffeeprice", "help"}

\* C19: the in-memory set changes only in the first step of a /start or
\* /unsubscribe handler, and only in the membership of the issuing chat;
\* the file changes and a write is made only in the save of such a handler;
\* the job, get_coffee_price, /coffeeprice and /help leave all three alone.
C19_OnlyStoreCommandsChange ==
    [][/\ subscribers' # subscribers =>
            /\ hpc = "idle"
            /\ ncmds' = ncmds + 1
            /\ \/ /\ hcmd' = "start"
                  /\ Members(subscribers') = Members(subscribers) \cup {hchat'}
               \/ /\ hcmd' = "unsubscribe"
                  /\ Members(subscribers') = Members(subscribers) \ {hchat'}
            /\ UNCHANGED <<file, writes>>
       /\ (file' # file \/ writes' # writes) =>
            /\ hpc = "save"
            /\ hcmd \in {"start", "unsubscribe"}
            /\ writes' = writes + 1
            /\ UNCHANGED subscribers
       /\ OtherStep => UNCHANGED storeVars]_vars

\* C19's case: a /coffeeprice has been handled and a send of the job has
\* failed, and the three subscribers of the file are as they were loaded
C19_Witness ==
    /\ hpc = "idle"
    /\ hcmd = "coffeeprice"
    /\ Len(replies) = 2
    /\ jpc = "raised"
    /\ Len(sends) >= 1
    /\ sends[Len(sends)].outcome = "fail"
    /\ Members(subscribers) = {7, 15, 42}
    /\ file.st = "ok"
    /\ load_subscribers(file) = subscribers
    /\ writes = 0

=============================================================================
